---------------------------- MODULE Spec2Model ----------------------------
(***************************************************************************)
(* A model of dsp/modules/gpt3.py: the GPT3 client (construction, request  *)
(* shaping, rate-limit retry, history, completion post-processing) and the *)
(* CachedCompletions layer under it (weak_lru session tier, CacheMemory    *)
(* durable tier, the four version/mode specific request functions).        *)
(*                                                                         *)
(* Python values are represented as follows.                               *)
(*   dict            a sequence of <<key, value>> pairs with distinct keys, *)
(*                   in insertion order (Python dicts keep it)             *)
(*   None / value    <<>> / <<value>>                                       *)
(*   str (JSON text) a sequence of tokens                                  *)
(***************************************************************************)
EXTENDS Integers, Sequences, FiniteSets, TLC

(***************************************************************************)
(* Python dict operations.                                                 *)
(***************************************************************************)
\* the element of a one-element set; The({e(x) : x \in {v}}) is e(v) with v
\* evaluated once
The(S) == CHOOSE v \in S : TRUE

Keys(d) == {d[i][1] : i \in DOMAIN d}

Has(d, k) == k \in Keys(d)

Get(d, k) == d[CHOOSE i \in DOMAIN d : d[i][1] = k][2]

Del(d, k) == SelectSeq(d, LAMBDA p : p[1] # k)

SetItem(d, k, v) ==
    IF Has(d, k)
    THEN [i \in DOMAIN d |-> IF d[i][1] = k THEN <<k, v>> ELSE d[i]]
    ELSE Append(d, <<k, v>>)

RECURSIVE Merge(_, _)
Merge(a, b) ==
    IF b = <<>> THEN a
    ELSE The({ Merge(a2, Tail(b)) : a2 \in {SetItem(a, Head(b)[1], Head(b)[2])} })

AsMapping(d) == {d[i] : i \in DOMAIN d}

(***************************************************************************)
(* json.dumps / json.loads on the payloads basic_request builds: a dict    *)
(* whose values are scalars, except "messages", a list of dicts of         *)
(* scalars.  The text is a token sequence; keys are written in the dict's  *)
(* order (dumps is called without sort_keys).                              *)
(***************************************************************************)
RECURSIVE DumpItems(_, _)
DumpItems(d, nested) ==
    IF d = <<>> THEN <<>>
    ELSE LET k == Head(d)[1]
             v == Head(d)[2]
             val == IF nested /\ k = "messages" THEN v ELSE <<v>>
         IN  <<k, ":">> \o val
             \o (IF Tail(d) = <<>> THEN <<>> ELSE <<",">>)
             \o DumpItems(Tail(d), nested)

DumpDict(d) == <<"{">> \o DumpItems(d, FALSE) \o <<"}">>

RECURSIVE DumpList(_)
DumpList(l) ==
    IF l = <<>> THEN <<>>
    ELSE DumpDict(Head(l))
         \o (IF Tail(l) = <<>> THEN <<>> ELSE <<",">>)
         \o DumpList(Tail(l))

Rendered(d) ==
    [i \in DOMAIN d |->
        IF d[i][1] = "messages"
        THEN <<d[i][1], <<"[">> \o DumpList(d[i][2]) \o <<"]">> >>
        ELSE d[i]]

json_dumps(d) ==
    The({ <<"{">> \o DumpItems(rendered, TRUE) \o <<"}">> :
            rendered \in {Rendered(x) : x \in {d}} })

\* Parsers return <<value, rest of the tokens>>.
RECURSIVE ParseFlat(_, _)
ParseFlat(ts, acc) ==
    \* ts starts after "{" or after a ","; a flat dict of scalars
    IF Head(ts) = "}" THEN <<acc, Tail(ts)>>
    ELSE LET k    == ts[1]
             v    == ts[3]
             rest == SubSeq(ts, 4, Len(ts))
             acc2 == SetItem(acc, k, v)
         IN  IF Head(rest) = ","
             THEN The({ ParseFlat(t, a) : t \in {Tail(rest)}, a \in {acc2} })
             ELSE <<acc2, Tail(rest)>>

RECURSIVE ParseList(_, _)
ParseList(ts, acc) ==
    \* ts starts after "[" or after a ","; a list of flat dicts
    IF Head(ts) = "]" THEN <<acc, Tail(ts)>>
    ELSE LET one  == The({ ParseFlat(t, <<>>) : t \in {Tail(ts)} })
             acc2 == Append(acc, one[1])
             rest == one[2]
         IN  IF Head(rest) = ","
             THEN The({ ParseList(t, a) : t \in {Tail(rest)}, a \in {acc2} })
             ELSE <<acc2, Tail(rest)>>

RECURSIVE ParseTop(_, _)
ParseTop(ts, acc) ==
    IF Head(ts) = "}" THEN <<acc, Tail(ts)>>
    ELSE LET k      == ts[1]
             isList == k = "messages"
             parsed == IF isList
                       THEN The({ ParseList(t, <<>>) :
                                    t \in {SubSeq(ts, 4, Len(ts))} })
                       ELSE <<ts[3], SubSeq(ts, 4, Len(ts))>>
             acc2   == SetItem(acc, k, parsed[1])
             rest   == parsed[2]
         IN  IF Head(rest) = ","
             THEN The({ ParseTop(t, a) : t \in {Tail(rest)}, a \in {acc2} })
             ELSE <<acc2, Tail(rest)>>

json_loads(s) == The({ ParseTop(t, <<>>) : t \in {Tail(s)} })[1]

(***************************************************************************)
(* Strings the code searches with "in" are spelled out character by        *)
(* character, so that the substring tests of __init__ are computed.        *)
(***************************************************************************)
Chars(s) ==
    CASE s = "gpt-3.5"  -> <<"g","p","t","-","3",".","5">>
      [] s = "turbo"    -> <<"t","u","r","b","o">>
      [] s = "gpt-4"    -> <<"g","p","t","-","4">>
      [] s = "instruct" -> <<"i","n","s","t","r","u","c","t">>
      [] s = "gpt-3.5-turbo" ->
            <<"g","p","t","-","3",".","5","-","t","u","r","b","o">>
      [] s = "gpt-3.5-turbo-instruct" ->
            <<"g","p","t","-","3",".","5","-","t","u","r","b","o","-",
              "i","n","s","t","r","u","c","t">>
      [] s = "text-davinci-003" ->
            <<"t","e","x","t","-","d","a","v","i","n","c","i","-","0","0","3">>
      [] s = "davinci-turbo" ->
            <<"d","a","v","i","n","c","i","-","t","u","r","b","o">>
      [] s = "gpt-4-instruct" ->
            <<"g","p","t","-","4","-","i","n","s","t","r","u","c","t">>

\* Python's  sub in s  on strings
In(sub, s) ==
    LET a == Chars(sub)
        b == Chars(s)
    IN  \E i \in 0..(Len(b) - Len(a)) : SubSeq(b, i + 1, i + Len(a)) = a

NotIn(sub, s) == ~In(sub, s)

\* the model names a client is constructed with
Models == {"gpt-4", "gpt-3.5-turbo", "gpt-3.5-turbo-instruct",
           "text-davinci-003", "davinci-turbo", "gpt-4-instruct"}

None == <<>>

Some(x) == <<x>>

\* an inference that looks at the model family only
default_model_type_by_family(model) ==
    IF In("gpt-3.5", model) \/ In("turbo", model) \/ In("gpt-4", model)
    THEN "chat"
    ELSE "text"

\* GPT3.__init__, lines 80-84
default_model_type(model) ==
    IF (In("gpt-3.5", model) \/ In("turbo", model) \/ In("gpt-4", model))
       /\ NotIn("instruct", model)
    THEN "chat"
    ELSE "text"

\* GPT3.__init__, line 85: model_type if model_type else default_model_type
init_model_type(model, model_type) ==
    IF model_type # None THEN model_type[1] ELSE default_model_type(model)

\* GPT3.__init__, lines 87-97
init_kwargs(model, kw) ==
    SetItem(Merge(<< <<"temperature", 0>>, <<"max_tokens", 150>>,
                     <<"top_p", 1>>, <<"frequency_penalty", 0>>,
                     <<"presence_penalty", 0>>, <<"n", 1>> >>, kw),
            "model", model)

(***************************************************************************)
(* State.                                                                  *)
(***************************************************************************)
VARIABLES
    OPENAI_LEGACY,   \* module constant, line 15: the legacy client shape
    cache_turn_on,   \* imported flag, line 11
    CacheMemory,     \* imported object, line 11: "Memory" or "noop"
    debug,           \* Python's __debug__: assert statements run iff TRUE
    lm,              \* the constructed GPT3 clients: model_type, system_prompt, kwargs
    history,         \* self.history of each client
    lru,             \* the functools.lru_cache's of weak_lru: key -> value
    memory,          \* the store behind CacheMemory.cache: key -> value
    api_call,        \* the latest call made to the API, None before the first
    frame,           \* the call in progress (the interpreter is single threaded)
    calls,           \* log of the finished calls, for stating properties
    fails            \* number of errors the API has raised so far

vars == <<OPENAI_LEGACY, cache_turn_on, CacheMemory, debug, lm, history, lru,
          memory, api_call, frame, calls, fails>>

config == <<OPENAI_LEGACY, cache_turn_on, CacheMemory, debug>>

(***************************************************************************)
(* Bounds of the model.                                                    *)
(***************************************************************************)
MaxCalls == 2

MaxFails == 2
MaxCallsInDepth == 1

Clients == {"lm1", "lm2"}

\* the elapsed-time ceiling of the retry decorator, line 146
max_time == 1000

\* a retry condition that takes in every API error
ERRORS_any == {"RateLimitError", "APIError"}

\* ERRORS, lines 19-25
ERRORS == {"RateLimitError"}

(***************************************************************************)
(* GPT3.basic_request, lines 116-131: the keyword arguments handed to the  *)
(* cache layer.                                                            *)
(***************************************************************************)
chat_messages(self, prompt) ==
    (IF self.system_prompt # None
     THEN << << <<"role", "system">>, <<"content", self.system_prompt[1]>> >> >>
     ELSE <<>>)
    \o << << <<"role", "user">>, <<"content", prompt>> >> >>

basic_request_kwargs(self, prompt, kw) ==
    The({ IF self.model_type = "chat"
          THEN << <<"stringify_request",
                    json_dumps(SetItem(merged, "messages",
                                       chat_messages(self, prompt)))>> >>
          ELSE SetItem(merged, "prompt", prompt) :
            merged \in {Merge(self.kwargs, kw)} })

\* GPT3.request, lines 151-152
\* a request that forwards its keyword arguments untouched
request_kwargs_untouched(kw) == kw

request_kwargs(kw) == IF Has(kw, "model_type") THEN Del(kw, "model_type") ELSE kw

(***************************************************************************)
(* CachedCompletions.                                                      *)
(***************************************************************************)
\* chat_request / completions_request, lines 293-303: the function called
entry_point(self) ==
    IF self.model_type = "chat" THEN "chat_request" ELSE "completions_request"

wrapped_function(entry) ==
    IF entry = "chat_request"
    THEN (IF OPENAI_LEGACY THEN "_cached_gpt3_turbo_request_v2_wrapped"
                           ELSE "v1_cached_gpt3_turbo_request_v2_wrapped")
    ELSE (IF OPENAI_LEGACY THEN "cached_gpt3_request_v2_wrapped"
                           ELSE "v1_cached_gpt3_request_v2_wrapped")

\* the method each *_wrapped function calls, lines 265, 274, 282, 291
inner_function(wrapped) ==
    CASE wrapped = "cached_gpt3_request_v2_wrapped" -> "cached_gpt3_request_v2"
      [] wrapped = "_cached_gpt3_turbo_request_v2_wrapped" ->
            "_cached_gpt3_turbo_request_v2"
      [] wrapped = "v1_cached_gpt3_request_v2_wrapped" -> "v1_cached_gpt3_request_v2"
      [] wrapped = "v1_cached_gpt3_turbo_request_v2_wrapped" ->
            "v1_cached_gpt3_turbo_request_v2"

\* CachedCompletions.__init__, lines 250-257: the instance attributes bound to
\* a CacheMemory.cache(...) wrapper.  self.<name> is the memoized function when
\* <name> is one of them and the plain method otherwise.
MemoizedAttributes ==
    {"cache_gpt3_request_v2", "_cached_gpt3_turbo_request_v2",
     "v1_cached_gpt3_request_v2", "v1_cached_gpt3_turbo_request_v2"}

memoized(inner) == CacheMemory = "Memory" /\ inner \in MemoizedAttributes

\* weak_lru, lines 234-240: the lru_cache of a function is keyed by the weak
\* reference to self and the keyword arguments in the order given
lru_key(wrapped, c, kw) == <<wrapped, c, kw>>

\* a session tier that never keeps an entry
lru_never == FALSE

\* a session tier that stores whatever the configuration says
lru_always == TRUE

\* weak_lru(maxsize=None if cache_turn_on else 0), lines 263, 272, 280, 289
lru_enabled == cache_turn_on

\* a durable key that leaves the uniqueness token out
memory_key_without_token(inner, kw) == <<inner, AsMapping(Del(kw, "model_uuid"))>>

\* CacheMemory.cache(f, ignore=['self']), lines 250-256: keyed by the function
\* and the mapping of its keyword arguments, self left out
memory_key(inner, kw) == <<inner, AsMapping(kw)>>

IsChatFunction(inner) ==
    inner \in {"_cached_gpt3_turbo_request_v2", "v1_cached_gpt3_turbo_request_v2"}

\* the bodies of the four request functions up to the create call,
\* lines 259-261, 267-270, 276-278, 284-287
create_endpoint(inner) ==
    CASE inner = "cached_gpt3_request_v2" -> "Completion.create"
      [] inner = "_cached_gpt3_turbo_request_v2" -> "ChatCompletion.create"
      [] inner = "v1_cached_gpt3_request_v2" -> "completions.create"
      [] inner = "v1_cached_gpt3_turbo_request_v2" -> "chat.completions.create"

raises_KeyError(inner, kw) == ~IsChatFunction(inner) /\ ~Has(kw, "model_uuid")

create_payload(inner, kw) ==
    IF IsChatFunction(inner)
    THEN (IF Has(kw, "stringify_request")
          THEN json_loads(Get(kw, "stringify_request"))
          ELSE kw)
    ELSE Del(kw, "model_uuid")

\* the object the API client returns: a mapping (OpenAIObject) on the legacy
\* path, a model object on the current one
api_object(response) ==
    IF OPENAI_LEGACY THEN response ELSE [model_fields |-> response]

\* lines 297, 303: .model_dump() on the current path
returned_value(obj) == IF OPENAI_LEGACY THEN obj ELSE obj.model_fields

(***************************************************************************)
(* The response of the API, as far as __call__ reads it (lines 191-217):   *)
(* "choices", each with its text ("text", or "message"."content" from the  *)
(* chat endpoint), "finish_reason" and "logprobs" (None unless the text    *)
(* endpoint was asked for them).  The API answers with n choices.          *)
(***************************************************************************)
Texts == <<"a", "b", "c">>

FinishReasons == {"stop", "length"}

EOT == "<|endoftext|>"

\* what a choice is made of: a finish reason and its tokens with their
\* log-probabilities (negative integers stand for the floats)
Generations(logprobs) ==
    [finish_reason : FinishReasons, logprobs : logprobs]

Contents(n, logprobs) == [1..n -> Generations(logprobs)]

truthy(v) == v # 0

wants_logprobs(payload) ==
    Has(payload, "logprobs") /\ truthy(Get(payload, "logprobs"))

api_choice(inner, payload, text, g) ==
    IF IsChatFunction(inner)
    THEN [message |-> [role |-> "assistant", content |-> text],
          finish_reason |-> g.finish_reason,
          logprobs |-> None]
    ELSE [text |-> text,
          finish_reason |-> g.finish_reason,
          logprobs |-> IF wants_logprobs(payload) THEN Some(g.logprobs) ELSE None]

api_response(inner, payload, content) ==
    [choices |-> [i \in DOMAIN content |->
                    api_choice(inner, payload, Texts[i], content[i])]]

(***************************************************************************)
(* GPT3.__call__ after the request, lines 190-224.                         *)
(***************************************************************************)
\* _get_choice_text, lines 156-159
get_choice_text(self, choice) ==
    IF self.model_type = "chat" THEN choice.message.content ELSE choice.text

RECURSIVE Sum(_)
Sum(xs) == IF xs = <<>> THEN 0 ELSE Head(xs) + Sum(Tail(xs))

\* list.index
Index(xs, x) == CHOOSE i \in DOMAIN xs : xs[i] = x /\ \A j \in 1..(i - 1) : xs[j] # x

\* the log-probabilities of all tokens, marker or not
untruncated_logprobs(lp) == lp.token_logprobs

\* lines 212-214: the log-probabilities up to and including the first marker
truncated_logprobs(lp) ==
    IF \E i \in DOMAIN lp.tokens : lp.tokens[i] = EOT
    THEN SubSeq(lp.token_logprobs, 1, Index(lp.tokens, EOT))
    ELSE lp.token_logprobs

\* line 216: a mean is kept as <<sum, count>>, compared by cross multiplication
MeanLess(a, b) == a[1] * b[2] < b[1] * a[2]

MeanEq(a, b) == a[1] * b[2] = b[1] * a[2]

\* str comparison on the texts of the model
StrRank(t) == CHOOSE i \in DOMAIN Texts : Texts[i] = t

RECURSIVE ListLess(_, _)
ListLess(xs, ys) ==
    IF xs = <<>> THEN ys # <<>>
    ELSE IF ys = <<>> THEN FALSE
    ELSE IF Head(xs) # Head(ys) THEN Head(xs) < Head(ys)
    ELSE ListLess(Tail(xs), Tail(ys))

\* tuple comparison of (avglog, text, logprobs), line 217
ScoredLess(a, b) ==
    \/ MeanLess(a.avglog, b.avglog)
    \/ /\ MeanEq(a.avglog, b.avglog)
       /\ \/ StrRank(a.text) < StrRank(b.text)
          \/ a.text = b.text /\ ListLess(a.logprobs, b.logprobs)

\* sorted(..., reverse=True), line 218: descending and stable
RECURSIVE InsertDescending(_, _)
InsertDescending(x, sorted) ==
    IF sorted = <<>> THEN <<x>>
    ELSE IF ScoredLess(Head(sorted), x) THEN <<x>> \o sorted
    ELSE <<Head(sorted)>> \o InsertDescending(x, Tail(sorted))

RECURSIVE SortedReverse(_, _)
SortedReverse(xs, acc) ==
    IF xs = <<>> THEN acc
    ELSE SortedReverse(Tail(xs), InsertDescending(Head(xs), acc))

\* a filter without the fallback to all choices
kept_choices_strict(response, only_completed) ==
    IF only_completed
    THEN SelectSeq(response.choices, LAMBDA c : c.finish_reason # "length")
    ELSE response.choices

\* lines 193-196
kept_choices(response, only_completed) ==
    LET choices   == response.choices
        completed == SelectSeq(choices, LAMBDA c : c.finish_reason # "length")
    IN  IF only_completed /\ Len(completed) > 0 THEN completed ELSE choices

\* lines 206-217
scored_completions(self, choices) ==
    [i \in DOMAIN choices |->
        LET lps == truncated_logprobs(choices[i].logprobs[1])
        IN  [avglog   |-> <<Sum(lps), Len(lps)>>,
             text     |-> get_choice_text(self, choices[i]),
             logprobs |-> lps]]

\* lines 198-224; the result is [error, value], error = "" when it returns
call_completions(self, response, only_completed, return_sorted, kw) ==
    LET choices == kept_choices(response, only_completed)
        with_lp == Has(kw, "logprobs") /\ truthy(Get(kw, "logprobs"))
        plain   == IF with_lp
                   THEN [i \in DOMAIN choices |->
                            [text     |-> get_choice_text(self, choices[i]),
                             logprobs |-> choices[i].logprobs]]
                   ELSE [i \in DOMAIN choices |-> get_choice_text(self, choices[i])]
        n       == IF Has(kw, "n") THEN Get(kw, "n") ELSE 1
    IN  IF ~(return_sorted /\ n > 1)
        THEN [error |-> "", value |-> plain]
        ELSE IF \E i \in DOMAIN choices : choices[i].logprobs = None
        THEN [error |-> "TypeError", value |-> <<>>]
        ELSE IF \E i \in DOMAIN choices :
                    truncated_logprobs(choices[i].logprobs[1]) = <<>>
        THEN [error |-> "ZeroDivisionError", value |-> <<>>]
        ELSE IF choices = <<>>
        THEN [error |-> "UnboundLocalError", value |-> <<>>]
        ELSE LET ranked == SortedReverse(scored_completions(self, choices), <<>>)
             IN  [error |-> "",
                  value |-> [i \in DOMAIN ranked |->
                               [text     |-> ranked[i].text,
                                logprobs |-> ranked[i].logprobs]]]

(***************************************************************************)
(* The call in progress.                                                   *)
(*   pc       "idle", "network" (a create call is outstanding), "backoff"  *)
(*            (sleeping before the next attempt) or "done"                 *)
(*   entry    the method the caller invoked: "__call__", "request" or      *)
(*            "basic_request"                                              *)
(*   tries, elapsed, now, wait   the retry decorator's bookkeeping         *)
(*   outcome  "returned" or the name of the exception raised               *)
(***************************************************************************)
NoFrame ==
    [pc |-> "idle", client |-> "", entry |-> "", prompt |-> "", kwargs |-> <<>>,
     only_completed |-> TRUE, return_sorted |-> FALSE,
     tries |-> 0, now |-> 0, elapsed |-> 0, wait |-> 0, errors |-> <<>>,
     net |-> 0, outstanding |-> 0,
     outcome |-> "", response |-> None, result |-> None]

Retrying(f) == f.entry \in {"__call__", "request"}

\* the keyword arguments basic_request receives
raw_kwargs(f) == IF Retrying(f) THEN request_kwargs(f.kwargs) ELSE f.kwargs

\* the keyword arguments the cache layer receives
cache_kwargs(f) == basic_request_kwargs(lm[f.client], f.prompt, raw_kwargs(f))

CallRecord(f) ==
    [client |-> f.client, entry |-> f.entry, prompt |-> f.prompt,
     kwargs |-> f.kwargs, only_completed |-> f.only_completed,
     return_sorted |-> f.return_sorted, cache_kwargs |-> cache_kwargs(f),
     tries |-> f.tries, net |-> f.net, errors |-> f.errors,
     outcome |-> f.outcome, response |-> f.response, result |-> f.result]

\* lines 133-139
history_entry(f, response) ==
    [prompt |-> f.prompt, response |-> response,
     kwargs |-> cache_kwargs(f), raw_kwargs |-> raw_kwargs(f)]

\* a call that logs the request before the exception leaves it
Propagate_recording(f, err) ==
    LET g == [f EXCEPT !.pc = "done", !.outcome = err]
    IN  /\ frame' = g
        /\ calls' = Append(calls, CallRecord(g))
        /\ history' = [history EXCEPT
                          ![f.client] = Append(@, history_entry(f, None))]

\* the exception err leaves the call
Propagate(f, err) ==
    LET g == [f EXCEPT !.pc = "done", !.outcome = err]
    IN  /\ frame' = g
        /\ calls' = Append(calls, CallRecord(g))
        /\ history' = history

\* a history list shared by all clients instead of one per instance
Return_shared_history(f, response) ==
    LET g == [f EXCEPT !.pc = "done", !.outcome = "returned",
                       !.response = Some(response), !.result = Some(response)]
    IN  /\ history' = [c \in DOMAIN history |->
                          Append(history[c], history_entry(f, response))]
        /\ frame' = g
        /\ calls' = Append(calls, CallRecord(g))

\* the cache layer handed response back to basic_request: lines 133-141, and
\* for __call__ lines 190-224
Return(f, response) ==
    LET self == lm[f.client]
        post == IF f.entry = "__call__"
                THEN call_completions(self, response, f.only_completed,
                                      f.return_sorted, f.kwargs)
                ELSE [error |-> "", value |-> response]
        g    == [f EXCEPT !.pc = "done",
                          !.outcome = IF post.error = "" THEN "returned"
                                      ELSE post.error,
                          !.response = Some(response),
                          !.result = IF post.error = "" THEN Some(post.value)
                                     ELSE None]
    IN  /\ history' = [history EXCEPT
                          ![f.client] = Append(@, history_entry(f, response))]
        /\ frame' = g
        /\ calls' = Append(calls, CallRecord(g))

\* an attempt that goes to the API without looking into either tier
Attempt_without_lookup(f) ==
    \E kw \in {cache_kwargs(f)} :
    LET g     == [f EXCEPT !.tries = @ + 1, !.elapsed = f.now]
        inner == inner_function(wrapped_function(entry_point(lm[f.client])))
    IN  IF raises_KeyError(inner, kw)
        THEN /\ Propagate([g EXCEPT !.errors = Append(@, "KeyError")], "KeyError")
             /\ UNCHANGED <<lru, memory, api_call>>
        ELSE /\ api_call' = Some([client   |-> f.client,
                                  endpoint |-> create_endpoint(inner),
                                  function |-> inner,
                                  kwargs   |-> kw,
                                  payload  |-> create_payload(inner, kw)])
             /\ frame' = [g EXCEPT !.pc = "network", !.net = @ + 1,
                                   !.outstanding = @ + 1]
             /\ UNCHANGED <<lru, memory, history, calls>>

\* One attempt of the call: basic_request down to the cache layer, lines
\* 116-131, 293-303, 234-240 and 259-291.  It ends with the value of a cache
\* tier, with KeyError, or with a create call outstanding.
Attempt(f) ==
    \E kw \in {cache_kwargs(f)} :
    LET g       == [f EXCEPT !.tries = @ + 1, !.elapsed = f.now]
        wrapped == wrapped_function(entry_point(lm[f.client]))
        inner   == inner_function(wrapped)
        lkey    == lru_key(wrapped, f.client, kw)
        mkey    == memory_key(inner, kw)
    IN  IF lru_enabled /\ lkey \in DOMAIN lru
        THEN /\ Return(g, returned_value(lru[lkey]))
             /\ UNCHANGED <<lru, memory, api_call>>
        ELSE IF memoized(inner) /\ mkey \in DOMAIN memory
        THEN /\ lru' = IF lru_enabled THEN (lkey :> memory[mkey]) @@ lru ELSE lru
             /\ Return(g, returned_value(memory[mkey]))
             /\ UNCHANGED <<memory, api_call>>
        ELSE IF raises_KeyError(inner, kw)
        THEN /\ Propagate([g EXCEPT !.errors = Append(@, "KeyError")], "KeyError")
             /\ UNCHANGED <<lru, memory, api_call>>
        ELSE /\ api_call' = Some([client   |-> f.client,
                                  endpoint |-> create_endpoint(inner),
                                  function |-> inner,
                                  kwargs   |-> kw,
                                  payload  |-> create_payload(inner, kw)])
             /\ frame' = [g EXCEPT !.pc = "network", !.net = @ + 1,
                                   !.outstanding = @ + 1]
             /\ UNCHANGED <<lru, memory, history, calls>>

(***************************************************************************)
(* The retry decorator of request, lines 143-148: backoff.on_exception     *)
(* with the exponential wait generator, full jitter and max_time.          *)
(***************************************************************************)
\* backoff.expo: 1, 2, 4, ... for the first, second, third wait
expo(k) == 2 ^ (k - 1)

\* full jitter draws the wait from [0, value]; the model draws from these
full_jitter(value) == {(value + 1) \div 2, value}

Min(a, b) == IF a < b THEN a ELSE b

\* a decorator that never retries
gives_up_at_once(f) == TRUE

\* the decorator gives up on an exception when the time measured at the
\* start of the failed attempt has reached max_time
gives_up(f) == f.elapsed >= max_time

\* the waits the decorator may sleep after the failed attempt of f
next_wait(f) ==
    {Min(seconds, max_time - f.elapsed) : seconds \in full_jitter(expo(f.tries))}

(***************************************************************************)
(* Actions.                                                                *)
(***************************************************************************)
Resting == frame.pc \in {"idle", "done"}

\* lines 179-180:  assert only_completed;  assert return_sorted is False
\* only the first of the two assertions
assertion_fails_first_only(only_completed, return_sorted) == ~only_completed

assertion_fails(only_completed, return_sorted) == ~only_completed \/ return_sorted

\* GPT3.__init__, lines 49-101
GPT3_init(c, model, model_type, system_prompt, kw) ==
    /\ Resting
    /\ c \notin DOMAIN lm
    /\ lm' = (c :> [model_type       |-> init_model_type(model, model_type),
                    system_prompt    |-> system_prompt,
                    kwargs           |-> init_kwargs(model, kw),
                    given_model      |-> model,
                    given_model_type |-> model_type]) @@ lm
    /\ history' = (c :> <<>>) @@ history
    /\ UNCHANGED <<config, lru, memory, api_call, frame, calls, fails>>

\* A caller invokes __call__ (lines 161-188), request (149-154) or
\* basic_request (116) on client c; the action runs to the first create
\* call, or to the end of the call when there is none.
Call(c, entry, prompt, only_completed, return_sorted, kw) ==
    LET f == [NoFrame EXCEPT !.client = c, !.entry = entry, !.prompt = prompt,
                             !.kwargs = kw,
                             !.only_completed = only_completed,
                             !.return_sorted = return_sorted]
    IN  /\ Resting
        /\ c \in DOMAIN lm
        /\ Len(calls) < MaxCalls
        /\ IF entry = "__call__" /\ debug
                                  /\ assertion_fails(only_completed, return_sorted)
           THEN /\ Propagate([f EXCEPT !.errors = <<"AssertionError">>],
                             "AssertionError")
                /\ UNCHANGED <<lru, memory, api_call>>
           ELSE Attempt(f)
        /\ UNCHANGED <<config, lm, fails>>

\* the outstanding create call returns a response with the given content
ApiReturn(content) ==
    /\ frame.pc = "network"
    /\ LET sent    == api_call[1]
           obj     == api_object(api_response(sent.function, sent.payload, content))
           wrapped == wrapped_function(entry_point(lm[frame.client]))
           lkey    == lru_key(wrapped, frame.client, sent.kwargs)
           mkey    == memory_key(sent.function, sent.kwargs)
       IN  /\ Len(content) = Get(sent.payload, "n")
           /\ memory' = IF memoized(sent.function) THEN (mkey :> obj) @@ memory
                        ELSE memory
           /\ lru' = IF lru_enabled THEN (lkey :> obj) @@ lru ELSE lru
           /\ Return([frame EXCEPT !.outstanding = @ - 1], returned_value(obj))
    /\ UNCHANGED <<config, lm, api_call, fails>>

\* a cache layer that memoizes the outcome of a create call that raised
ApiRaise_memoized(err, lat) ==
    /\ frame.pc = "network"
    /\ LET f == [frame EXCEPT !.outstanding = @ - 1, !.now = @ + lat,
                              !.errors = Append(@, err)]
           wrapped == wrapped_function(entry_point(lm[frame.client]))
       IN  /\ lru' = (lru_key(wrapped, frame.client, api_call[1].kwargs)
                         :> [choices |-> <<>>]) @@ lru
           /\ IF Retrying(f) /\ err \in ERRORS /\ ~gives_up(f)
              THEN /\ \E seconds \in next_wait(f) :
                         frame' = [f EXCEPT !.pc = "backoff", !.wait = seconds]
                   /\ UNCHANGED <<history, calls>>
              ELSE Propagate(f, err)
    /\ fails' = fails + 1
    /\ UNCHANGED <<config, lm, memory, api_call>>

\* the outstanding create call raises err after lat seconds
ApiRaise(err, lat) ==
    /\ frame.pc = "network"
    /\ LET f == [frame EXCEPT !.outstanding = @ - 1, !.now = @ + lat,
                              !.errors = Append(@, err)]
       IN  IF Retrying(f) /\ err \in ERRORS /\ ~gives_up(f)
           THEN /\ \E seconds \in next_wait(f) :
                      frame' = [f EXCEPT !.pc = "backoff", !.wait = seconds]
                /\ UNCHANGED <<history, calls>>
           ELSE Propagate(f, err)
    /\ fails' = fails + 1
    /\ UNCHANGED <<config, lm, lru, memory, api_call>>

\* a decorator that calls request again without sleeping
Sleep_without_waiting ==
    /\ frame.pc = "backoff"
    /\ Attempt([frame EXCEPT !.wait = 0])
    /\ UNCHANGED <<config, lm, fails>>

\* the sleep of the decorator ends and request is called again
Sleep ==
    /\ frame.pc = "backoff"
    /\ Attempt([frame EXCEPT !.now = @ + frame.wait, !.wait = 0])
    /\ UNCHANGED <<config, lm, fails>>

(***************************************************************************)
(* The specification of the client in use.                                 *)
(***************************************************************************)
\* dsp.modules.cache_utils: CacheMemory is a persistent store keyed by the
\* request; with caching turned off it may be one still, or a decorator that
\* stores nothing
CacheMemoryKinds(turned_on) == IF turned_on THEN {"Memory"} ELSE {"Memory", "noop"}

\* the module after import, lines 11-26, with no client constructed
InitModule ==
    /\ OPENAI_LEGACY \in BOOLEAN
    /\ cache_turn_on \in BOOLEAN
    /\ CacheMemory \in CacheMemoryKinds(cache_turn_on)
    /\ lm = <<>>
    /\ history = <<>>
    /\ lru = <<>>
    /\ memory = <<>>
    /\ api_call = None
    /\ frame = NoFrame
    /\ calls = <<>>
    /\ fails = 0

Init == InitModule /\ debug = TRUE

\* the constructor arguments, prompts, overrides and API behaviour explored
Setups ==
    { <<"gpt-4", None, Some("sys"), <<>> >>,
      <<"gpt-4", None, None, << <<"model_uuid", "u1">> >> >>,
      <<"gpt-4", None, None, << <<"model_uuid", "u2">> >> >>,
      <<"gpt-3.5-turbo-instruct", None, None, <<>> >>,
      <<"gpt-3.5-turbo-instruct", None, None, << <<"model_uuid", "u1">> >> >>,
      <<"gpt-3.5-turbo-instruct", None, None, << <<"model_uuid", "u2">> >> >> }

Prompts == {"p"}

Overrides ==
    { <<>>,
      << <<"model_type", "text">> >>,
      << <<"stop", "x">> >> }

Entries == {"request", "basic_request"}

LogProbs == { [tokens |-> <<"t">>, token_logprobs |-> <<-1>>] }

Latencies == {1}

ApiErrors == {"RateLimitError", "APIError"}

Construct == \E s \in Setups : GPT3_init("lm1", s[1], s[2], s[3], s[4])

Invoke ==
    \E c \in Clients, p \in Prompts, kw \in Overrides, e \in Entries :
        Call(c, e, p, TRUE, FALSE, kw)

Respond == \E content \in Contents(1, LogProbs) : ApiReturn(content)

Fail ==
    /\ fails < MaxFails
    /\ \E err \in ApiErrors, lat \in Latencies : ApiRaise(err, lat)

Next == Construct \/ Invoke \/ Respond \/ Fail \/ Sleep

Spec == Init /\ [][Next]_vars

(***************************************************************************)
(* Two clients side by side, each constructed with a model_uuid.           *)
(***************************************************************************)
TokenSetups == {s \in Setups : Has(s[4], "model_uuid")}

ConstructPair ==
    \E c \in Clients, s \in TokenSetups :
        /\ c = "lm2" => "lm1" \in DOMAIN lm
        /\ GPT3_init(c, s[1], s[2], s[3], s[4])

InvokePair ==
    \E c \in Clients, p \in Prompts : Call(c, "request", p, TRUE, FALSE, <<>>)

NextPair == ConstructPair \/ InvokePair \/ Respond \/ Fail \/ Sleep

SpecPair == Init /\ [][NextPair]_vars

(***************************************************************************)
(* The client against an API that answers every create call with the       *)
(* rate-limit error.  The error is raised and the sleep of the decorator   *)
(* ends, hence the weak fairness of both.                                  *)
(***************************************************************************)
ReachingSetups == {s \in Setups : s[3] # None \/ s[4] = << <<"model_uuid", "u1">> >>}

ConstructReaching ==
    \E s \in ReachingSetups : GPT3_init("lm1", s[1], s[2], s[3], s[4])

InvokeThrottled ==
    /\ Len(calls) < MaxCallsInDepth
    /\ \E p \in Prompts, e \in {"__call__", "request"} :
           Call("lm1", e, p, TRUE, FALSE, <<>>)

Throttle == \E lat \in Latencies : ApiRaise("RateLimitError", lat)

NextThrottled == ConstructReaching \/ InvokeThrottled \/ Throttle \/ Sleep

SpecThrottled ==
    Init /\ [][NextThrottled]_vars /\ WF_vars(Throttle) /\ WF_vars(Sleep)

(***************************************************************************)
(* __call__ with every combination of its flags, on responses of one to    *)
(* three choices.                                                          *)
(***************************************************************************)
CallOverrides ==
    { <<>>,
      << <<"n", 2>> >>,
      << <<"n", 3>> >>,
      << <<"n", 2>>, <<"logprobs", 1>> >> }

ChoiceCounts == {1, 2, 3}

InvokeCall ==
    \E p \in Prompts, only_completed \in BOOLEAN, return_sorted \in BOOLEAN,
       kw \in CallOverrides :
        Call("lm1", "__call__", p, only_completed, return_sorted, kw)

RespondChoices ==
    \E n \in ChoiceCounts : \E content \in Contents(n, LogProbs) :
        ApiReturn(content)

NextCall == ConstructReaching \/ InvokeCall \/ RespondChoices

SpecCall == Init /\ [][NextCall]_vars

(***************************************************************************)
(* Clients of every model name, with and without an explicit model_type.   *)
(***************************************************************************)
ModelTypes == {None, Some("chat"), Some("text")}

ConstructAny ==
    \E model \in Models, model_type \in ModelTypes :
        GPT3_init("lm1", model, model_type, None, << <<"model_uuid", "u1">> >>)

InvokeRequest ==
    \E p \in Prompts : Call("lm1", "request", p, TRUE, FALSE, <<>>)

NextAny == ConstructAny \/ InvokeRequest \/ Respond

SpecAny == Init /\ [][NextAny]_vars

(***************************************************************************)
(* __call__ asked to sort, with the assert statements active or removed    *)
(* (python -O), on choices with and without the end-of-text marker.        *)
(***************************************************************************)
InitSort == InitModule /\ debug \in BOOLEAN

SortLogProbs ==
    { [tokens |-> <<"t">>,           token_logprobs |-> <<-2>>],
      [tokens |-> <<"t", "u">>,      token_logprobs |-> <<-1, -2>>],
      [tokens |-> <<"t", EOT, "u">>, token_logprobs |-> <<-1, -1, -10>>],
      [tokens |-> <<EOT, "t">>,      token_logprobs |-> <<-4, 0>>],
      [tokens |-> <<>>,              token_logprobs |-> <<>>] }

SortOverrides ==
    { << <<"n", 2>>, <<"logprobs", 1>> >>,
      << <<"n", 3>>, <<"logprobs", 1>> >>,
      << <<"n", 2>> >>,
      << <<"logprobs", 1>> >> }

InvokeSort ==
    /\ Len(calls) < MaxCallsInDepth
    /\ \E p \in Prompts, return_sorted \in BOOLEAN, kw \in SortOverrides :
           Call("lm1", "__call__", p, TRUE, return_sorted, kw)

RespondScored ==
    \E n \in ChoiceCounts :
        \E content \in [1..n -> [finish_reason : {"stop"}, logprobs : SortLogProbs]] :
            ApiReturn(content)

NextSort == ConstructReaching \/ InvokeSort \/ RespondScored

SpecSort == InitSort /\ [][NextSort]_vars

(***************************************************************************)
(* Requests whose overrides are the same options given in either order.    *)
(***************************************************************************)
OrderedOverrides ==
    { << <<"stop", "x">>, <<"user", "y">> >>,
      << <<"user", "y">>, <<"stop", "x">> >>,
      << <<"temperature", 1>>, <<"stop", "x">> >>,
      << <<"stop", "x">>, <<"temperature", 1>> >> }

InvokeOrdered ==
    \E p \in Prompts, kw \in OrderedOverrides :
        Call("lm1", "request", p, TRUE, FALSE, kw)

NextOrdered == ConstructReaching \/ InvokeOrdered \/ Respond

SpecOrdered == Init /\ [][NextOrdered]_vars

(***************************************************************************)
(* Calls through request and __call__ whose overrides carry model_type.    *)
(***************************************************************************)
StrayOverrides ==
    { << <<"model_type", "text">>, <<"stop", "x">> >>,
      << <<"stop", "x">>, <<"model_type", "chat">> >> }

InvokeStray ==
    \E p \in Prompts, e \in {"request", "__call__"}, kw \in StrayOverrides :
        Call("lm1", e, p, TRUE, FALSE, kw)

NextStray == ConstructReaching \/ InvokeStray \/ Respond \/ Fail \/ Sleep

SpecStray == Init /\ [][NextStray]_vars

(***************************************************************************)
(* Reading the log of finished calls.                                      *)
(***************************************************************************)
Returned(call) == call.response # None

SameRequest(a, b) ==
    a.client = b.client /\ a.cache_kwargs = b.cache_kwargs

\* C1 as claimed: two calls of one client with identical keyword arguments,
\* each a single call of the cache layer that returns, issue exactly one
\* network call in total and return equal values.
C1_AnyTwoCallsOneNetworkCall ==
    \A i, j \in DOMAIN calls :
        (i < j /\ SameRequest(calls[i], calls[j])
               /\ calls[i].tries = 1 /\ calls[j].tries = 1
               /\ Returned(calls[i]) /\ Returned(calls[j]))
        => /\ calls[i].net + calls[j].net = 1
           /\ calls[i].response = calls[j].response

\* C1, amended: with caching enabled, once a call of the cache layer has
\* returned a response, every later call on the same client with identical
\* keyword arguments issues no network call and returns an equal value, on the
\* legacy and on the current path alike.
C1_RepeatServedFromCache ==
    cache_turn_on =>
        \A i, j \in DOMAIN calls :
            (i < j /\ SameRequest(calls[i], calls[j]) /\ Returned(calls[i]))
            => /\ calls[j].net = 0
               /\ calls[j].response = calls[i].response

C1_Witness ==
    /\ cache_turn_on
    /\ Len(calls) = 2
    /\ SameRequest(calls[1], calls[2])
    /\ calls[1].net = 1 /\ Returned(calls[1])
    /\ calls[2].net = 0 /\ calls[2].response = calls[1].response
    /\ api_call # None /\ api_call[1].endpoint = "Completion.create"

\* the payload of a logged call as the API would get it, with the token
PayloadOf(call) ==
    IF Has(call.cache_kwargs, "stringify_request")
    THEN json_loads(Get(call.cache_kwargs, "stringify_request"))
    ELSE call.cache_kwargs

TokenOf(call) ==
    IF Has(PayloadOf(call), "model_uuid")
    THEN Some(Get(PayloadOf(call), "model_uuid"))
    ELSE None

VisibleOf(call) == Del(PayloadOf(call), "model_uuid")

FirstOfItsKind(j) == \A k \in 1..(j - 1) : ~SameRequest(calls[k], calls[j])

WrappedOf(call) == wrapped_function(entry_point(lm[call.client]))

\* two logged calls of different clients whose requests carry different
\* model_uuid tokens and the same visible payload
TokensApart(a, b) ==
    /\ a.client # b.client
    /\ TokenOf(a) # None /\ TokenOf(b) # None /\ TokenOf(a) # TokenOf(b)
    /\ VisibleOf(a) = VisibleOf(b)

\* C2: requests of two clients that differ in model_uuid only have different
\* keys in the session tier and in the durable tier, and the first such
\* request of each client is not answered from a cache: it reaches the network.
C2_TokenIsolatesClients ==
    \A i, j \in DOMAIN calls :
        (i < j /\ TokensApart(calls[i], calls[j]))
        => /\ lru_key(WrappedOf(calls[i]), calls[i].client, calls[i].cache_kwargs)
                # lru_key(WrappedOf(calls[j]), calls[j].client, calls[j].cache_kwargs)
           /\ memory_key(inner_function(WrappedOf(calls[i])), calls[i].cache_kwargs)
                # memory_key(inner_function(WrappedOf(calls[j])), calls[j].cache_kwargs)
           /\ FirstOfItsKind(j) => calls[j].net >= 1

C2_Witness ==
    /\ Len(calls) = 2
    /\ TokensApart(calls[1], calls[2])
    /\ cache_turn_on /\ ~OPENAI_LEGACY
    /\ calls[1].net = 1 /\ calls[2].net = 1
    /\ Returned(calls[1]) /\ Returned(calls[2])
    /\ calls[1].response # calls[2].response
    /\ Cardinality(DOMAIN memory) = 2 /\ Cardinality(DOMAIN lru) = 2
    /\ api_call[1].endpoint = "completions.create"

Last(xs) == xs[Len(xs)]

\* what C3 asks of one call through request, finished or in progress
OnlyRateLimitRetried(f, done) ==
    /\ \A i \in 1..(Len(f.errors) - 1) : f.errors[i] = "RateLimitError"
    /\ (f.errors # <<>> /\ Last(f.errors) \notin {"RateLimitError", "AssertionError"})
       => /\ done
          /\ f.outcome = Last(f.errors)
          /\ f.tries = Len(f.errors)
    /\ ~done => f.tries >= Len(f.errors)

\* C3: in a call through request every attempt that was followed by a wait or
\* by another attempt raised the rate-limit error; an attempt raising anything
\* else ends the call at once with that exception and no wait.
C3_RetryOnlyOnRateLimit ==
    /\ (frame.pc # "idle" /\ Retrying(frame))
       => /\ OnlyRateLimitRetried(frame, frame.pc = "done")
          /\ frame.pc = "backoff" => Last(frame.errors) = "RateLimitError"
          /\ frame.pc = "done" => frame.wait = 0
    /\ \A i \in DOMAIN calls :
          Retrying(calls[i]) => OnlyRateLimitRetried(calls[i], TRUE)

C3_Witness ==
    /\ frame.pc = "done" /\ frame.entry = "request"
    /\ frame.errors = <<"APIError">>
    /\ frame.tries = 1 /\ frame.net = 1 /\ frame.now = 1
    /\ frame.outcome = "APIError"
    /\ Len(calls) = 2 /\ calls[1].errors = <<"RateLimitError">>
    /\ calls[1].tries = 2 /\ calls[1].outcome = "returned"

\* C4: against an API that always raises the rate-limit error, request
\* sleeps between attempts for at most 1, 2, 4, ... seconds and never past the
\* 1000 second budget, retries only while the time measured at the start of
\* the failed attempt is below 1000 seconds, and then ends by raising the
\* rate-limit error of its last attempt; every such call ends.
C4_RetryBound ==
    /\ [](frame.pc = "backoff"
            => /\ Last(frame.errors) = "RateLimitError"
               /\ frame.elapsed < 1000
               /\ frame.wait <= 2 ^ (frame.tries - 1)
               /\ frame.wait <= 1000 - frame.elapsed)
    /\ []((frame.pc = "done" /\ frame.net > 0)
            => /\ frame.outcome = "RateLimitError"
               /\ frame.errors = [i \in 1..frame.tries |-> "RateLimitError"]
               /\ frame.net = frame.tries
               /\ frame.elapsed >= 1000)
    /\ (frame.pc \in {"network", "backoff"}) ~> (frame.pc = "done")

C4_Witness ==
    /\ frame.pc = "done" /\ frame.entry = "request"
    /\ frame.outcome = "RateLimitError"
    /\ frame.tries > 10
    /\ frame.elapsed >= max_time
    /\ history[frame.client] = <<>>

\* the calls of client c that returned, in call order
Successful(c) == SelectSeq(calls, LAMBDA r : r.client = c /\ Returned(r))

\* C5 as stated: history has one entry per successful call, in call order,
\* holding the call's prompt, the keyword arguments exactly as the caller
\* passed them, and the response the call returned.
C5_HistoryHoldsCallerKwargs ==
    \A c \in DOMAIN lm :
        LET done == Successful(c)
        IN  /\ Len(history[c]) = Len(done)
            /\ \A i \in DOMAIN done :
                   /\ history[c][i].prompt = done[i].prompt
                   /\ history[c][i].raw_kwargs = done[i].kwargs
                   /\ Some(history[c][i].response) = done[i].response

\* C5: history has one entry per successful call, in call order, whether the
\* call was answered from a cache, by its first network attempt or after
\* retries; the entry holds the call's prompt, the response it returned, and
\* the caller's keyword arguments, from which request has removed model_type.
C5_HistoryIntegrity ==
    \A c \in DOMAIN lm :
        LET done == Successful(c)
        IN  /\ Len(history[c]) = Len(done)
            /\ \A i \in DOMAIN done :
                   /\ history[c][i].prompt = done[i].prompt
                   /\ Some(history[c][i].response) = done[i].response
                   /\ history[c][i].raw_kwargs =
                          IF done[i].entry = "basic_request"
                          THEN done[i].kwargs
                          ELSE SelectSeq(done[i].kwargs,
                                         LAMBDA p : p[1] # "model_type")

C5_Witness ==
    /\ Len(calls) = 2 /\ "lm1" \in DOMAIN lm
    /\ Len(history["lm1"]) = 2
    /\ calls[1].entry = "request" /\ calls[1].tries = 2 /\ calls[1].net = 2
    /\ calls[1].kwargs = << <<"model_type", "text">> >>
    /\ calls[2].entry = "request" /\ calls[2].net = 0
    /\ history["lm1"][1].raw_kwargs = <<>>

\* the text of a choice as the API returned it
TextOf(choice) ==
    IF "text" \in DOMAIN choice THEN choice.text ELSE choice.message.content

\* the texts in the value __call__ returned; with logprobs requested the
\* value is a list of {text, logprobs}
TextsOf(call) ==
    IF Has(call.kwargs, "logprobs") /\ Get(call.kwargs, "logprobs") # 0
    THEN [i \in DOMAIN call.result[1] |-> call.result[1][i].text]
    ELSE call.result[1]

NotTruncated(choices) ==
    SelectSeq(choices, LAMBDA c : c.finish_reason # "length")

UnsupportedCallStarts ==
    /\ Resting
    /\ frame' # frame \/ calls' # calls
    /\ frame'.entry = "__call__"
    /\ ~frame'.only_completed \/ frame'.return_sorted

KeyContent(sent) ==
    IF Has(sent.kwargs, "stringify_request")
    THEN json_loads(Get(sent.kwargs, "stringify_request"))
    ELSE sent.kwargs

\* C8: every request forwarded to a create call has model_uuid in its cache
\* key and not in the payload handed to the create call.
C8_TokenInKeyNotInPayload ==
    api_call # None
        => /\ Has(KeyContent(api_call[1]), "model_uuid")
           /\ ~Has(api_call[1].payload, "model_uuid")

\* the model names that contain "gpt-3.5", "turbo" or "gpt-4" and do not
\* contain "instruct"
ChatNames == {"gpt-4", "gpt-3.5-turbo", "davinci-turbo"}

KindExpected(self) ==
    IF self.given_model_type # None THEN self.given_model_type[1]
    ELSE IF self.given_model \in ChatNames THEN "chat" ELSE "text"

ChatFunctions ==
    {"_cached_gpt3_turbo_request_v2", "v1_cached_gpt3_turbo_request_v2"}

ChatWrapped ==
    {"_cached_gpt3_turbo_request_v2_wrapped",
     "v1_cached_gpt3_turbo_request_v2_wrapped"}

C9_WitnessExplicit ==
    /\ "lm1" \in DOMAIN lm
    /\ lm["lm1"].given_model = "gpt-4"
    /\ lm["lm1"].given_model_type = Some("text")
    /\ api_call # None /\ api_call[1].function = "cached_gpt3_request_v2"

\* a call of __call__ with return_sorted=True and n > 1
AskedToSort(call) ==
    /\ call.entry = "__call__" /\ call.return_sorted
    /\ Has(call.kwargs, "n") /\ Get(call.kwargs, "n") > 1

\* the number of tokens the mean of a choice is taken over: through the first
\* end-of-text marker, or all of them when there is none
TokensCounted(lp) ==
    IF \E i \in DOMAIN lp.tokens : lp.tokens[i] = EOT
    THEN CHOOSE i \in DOMAIN lp.tokens :
            /\ lp.tokens[i] = EOT
            /\ \A j \in DOMAIN lp.tokens : lp.tokens[j] = EOT => i <= j
    ELSE Len(lp.tokens)

SumOfFirst(xs, k) ==
    LET S[i \in 0..k] == IF i = 0 THEN 0 ELSE S[i - 1] + xs[i]
    IN  S[k]

\* mean a is at least mean b, a mean being the sum over count tokens
MeanAtLeast(sumA, countA, sumB, countB) == sumA * countB >= sumB * countA

\* the choice of the response that a returned completion came from
ChoiceOf(call, completion) ==
    CHOOSE c \in {call.response[1].choices[i] :
                    i \in DOMAIN call.response[1].choices} :
        c.text = completion.text

OrderedByMean(call) ==
    LET out == call.result[1]
    IN  \A i, j \in DOMAIN out :
            i < j =>
              LET a == ChoiceOf(call, out[i]).logprobs[1]
                  b == ChoiceOf(call, out[j]).logprobs[1]
              IN  MeanAtLeast(SumOfFirst(a.token_logprobs, TokensCounted(a)),
                              TokensCounted(a),
                              SumOfFirst(b.token_logprobs, TokensCounted(b)),
                              TokensCounted(b))

SessionKeyOf(call) == <<WrappedOf(call), call.client, call.cache_kwargs>>

DurableKeyOf(call) ==
    <<inner_function(WrappedOf(call)),
      {call.cache_kwargs[i] : i \in DOMAIN call.cache_kwargs}>>

\* C11: with caching enabled, on each of the four request paths a create
\* call is outstanding only after a miss in both tiers, a call that returned
\* leaves its response stored in the session tier and in the durable tier,
\* and a call whose key was in a tier returns without a create call.
C11_LookupOrder ==
    cache_turn_on =>
        /\ frame.pc = "network"
              => /\ <<WrappedOf(frame), frame.client, api_call[1].kwargs>>
                        \notin DOMAIN lru
                 /\ <<api_call[1].function,
                      {api_call[1].kwargs[i] : i \in DOMAIN api_call[1].kwargs}>>
                        \notin DOMAIN memory
        /\ \A k \in DOMAIN calls :
              Returned(calls[k])
                 => /\ SessionKeyOf(calls[k]) \in DOMAIN lru
                    /\ DurableKeyOf(calls[k]) \in DOMAIN memory
                    /\ returned_value(lru[SessionKeyOf(calls[k])])
                           = calls[k].response[1]
                    /\ returned_value(memory[DurableKeyOf(calls[k])])
                           = calls[k].response[1]
                    /\ (\E j \in 1..(k - 1) :
                            /\ Returned(calls[j])
                            /\ DurableKeyOf(calls[j]) = DurableKeyOf(calls[k]))
                           => calls[k].net = 0

\* the options of a chat request, messages included, as a mapping from name
\* to value
MappingOf(call) ==
    LET content == KeyContent([kwargs |-> call.cache_kwargs])
    IN  {content[i] : i \in DOMAIN content}

InChatMode(call) == Has(call.cache_kwargs, "stringify_request")

\* C12: with caching enabled, two chat calls on one client with the same
\* prompt, system prompt and merged name-to-value mapping have the same
\* stringify_request, and the later one is served without a create call
\* once the earlier one has returned, whatever the order of the overrides.
C12_KeyIgnoresOverrideOrder ==
    cache_turn_on =>
        \A j, k \in DOMAIN calls :
            (/\ j < k
             /\ calls[j].client = calls[k].client
             /\ InChatMode(calls[j]) /\ InChatMode(calls[k])
             /\ Returned(calls[j])
             /\ MappingOf(calls[j]) = MappingOf(calls[k]))
                => /\ calls[k].cache_kwargs = calls[j].cache_kwargs
                   /\ calls[k].net = 0

\* C13: a step in which a call of basic_request or request ends by raising,
\* or in which one of its attempts fails and the call goes on to wait or to
\* try again, leaves every history as it was.
C13_FailedCallRecordsNothing ==
    [][(\/ Len(calls') > Len(calls) /\ ~Returned(Last(calls'))
        \/ frame.pc = "network" /\ frame'.pc = "backoff"
        \/ frame.pc = "backoff" /\ frame'.pc = "network")
          => history' = history]_vars

C13_Witness ==
    /\ frame.pc = "done" /\ frame.entry = "request"
    /\ frame.outcome = "APIError"
    /\ frame.errors = <<"RateLimitError", "APIError">>
    /\ Len(calls) = 2 /\ Returned(calls[1])
    /\ Len(history[frame.client]) = 1

\* C14: with caching enabled, no step removes a key from the session tier
\* or from the durable tier or changes the response stored under it, and a
\* call answered without a create call returns the response stored under its
\* key.
C14_WriteOnce ==
    [][cache_turn_on
         => /\ \A key \in DOMAIN lru :
                   key \in DOMAIN lru' /\ lru'[key] = lru[key]
            /\ \A key \in DOMAIN memory :
                   key \in DOMAIN memory' /\ memory'[key] = memory[key]
            /\ (/\ Len(calls') > Len(calls)
                /\ Returned(Last(calls')) /\ Last(calls').net = 0)
                  => /\ SessionKeyOf(Last(calls')) \in DOMAIN lru
                           \/ DurableKeyOf(Last(calls')) \in DOMAIN memory
                     /\ SessionKeyOf(Last(calls')) \in DOMAIN lru
                           => Last(calls').response[1] =
                                 returned_value(lru[SessionKeyOf(Last(calls'))])
                     /\ DurableKeyOf(Last(calls')) \in DOMAIN memory
                           => Last(calls').response[1] =
                                 returned_value(memory[DurableKeyOf(Last(calls'))])]_vars

C14_Witness ==
    /\ cache_turn_on
    /\ Len(calls) = 2
    /\ calls[1].client = "lm1" /\ calls[1].net = 1 /\ Returned(calls[1])
    /\ calls[2].client = "lm2" /\ calls[2].net = 0 /\ Returned(calls[2])
    /\ DurableKeyOf(calls[1]) = DurableKeyOf(calls[2])
    /\ DurableKeyOf(calls[1]) \in DOMAIN memory
    /\ Cardinality(DOMAIN lru) = 2

\* C15: at most one create call of a request is outstanding, and a further
\* attempt of the same call starts only when the previous attempt has failed
\* with the rate-limit error and the wait chosen after it has elapsed.
C15_AttemptsSequential ==
    [][/\ frame'.outstanding \in {0, 1}
       /\ (~Resting /\ frame'.tries > frame.tries)
             => /\ frame.pc = "backoff"
                /\ frame.outstanding = 0
                /\ Last(frame.errors) = "RateLimitError"
                /\ Len(frame.errors) = frame.tries
                /\ frame'.tries = frame.tries + 1
                /\ frame'.now = frame.now + frame.wait]_vars

C15_Witness ==
    /\ frame.pc = "network" /\ frame.entry = "request"
    /\ frame.tries = 3 /\ frame.net = 3 /\ frame.outstanding = 1
    /\ frame.errors = <<"RateLimitError", "RateLimitError">>
    /\ frame.now > 2

\* C16: in every step each client's history keeps its entries in place;
\* it grows only by one entry at its end, in the step in which a call on
\* that client returns, and a new client starts with an empty history.
C16_HistoryAppendOnly ==
    [][/\ \A c \in DOMAIN history :
              /\ c \in DOMAIN history'
              /\ Len(history'[c]) >= Len(history[c])
              /\ SubSeq(history'[c], 1, Len(history[c])) = history[c]
              /\ history'[c] # history[c]
                    => /\ Len(history'[c]) = Len(history[c]) + 1
                       /\ Len(calls') = Len(calls) + 1
                       /\ Last(calls').client = c
                       /\ Returned(Last(calls'))
                       /\ Last(history'[c]).prompt = Last(calls').prompt
                       /\ Some(Last(history'[c]).response) = Last(calls').response
       /\ \A c \in DOMAIN history' :
              c \notin DOMAIN history => history'[c] = <<>>]_vars

C16_Witness ==
    /\ DOMAIN history = {"lm1", "lm2"}
    /\ Len(history["lm1"]) = 1 /\ Len(history["lm2"]) = 1
    /\ Len(calls) = 2 /\ calls[1].client = "lm2" /\ calls[2].client = "lm1"

\* C17: with caching disabled the session tier never holds an entry and a
\* call that returns was answered by the durable tier or by a create call;
\* with caching enabled the session tier loses no entry and holds the key of
\* every call that returned.
C17_SessionTierCapacity ==
    [][/\ ~cache_turn_on
            => /\ DOMAIN lru' = {}
               /\ (Len(calls') > Len(calls) /\ Returned(Last(calls')))
                     => \/ Last(calls').net >= 1
                        \/ DurableKeyOf(Last(calls')) \in DOMAIN memory
       /\ cache_turn_on
            => /\ DOMAIN lru \subseteq DOMAIN lru'
               /\ (Len(calls') > Len(calls) /\ Returned(Last(calls')))
                     => SessionKeyOf(Last(calls')) \in DOMAIN lru']_vars

C17_Witness ==
    /\ ~cache_turn_on /\ CacheMemory = "noop"
    /\ Len(calls) = 2
    /\ Returned(calls[1]) /\ Returned(calls[2])
    /\ calls[1].cache_kwargs = calls[2].cache_kwargs
    /\ calls[1].net = 1 /\ calls[2].net = 1
    /\ DOMAIN lru = {}

\* the options a set of keyword arguments stands for, a stringified chat
\* request read back
OptionsIn(pairs) ==
    UNION { IF pr[1] = "stringify_request"
            THEN {json_loads(pr[2])[i][1] : i \in DOMAIN json_loads(pr[2])}
            ELSE {pr[1]} : pr \in pairs }

\* C18: for a call through request or __call__ whose overrides hold
\* model_type, no create call, cache key or history entry holds model_type,
\* and every other override reaches the cache key and the payload with the
\* value the caller gave, on the first attempt and on retries.
C18_StrayModelTypeRemoved ==
    /\ (frame.pc = "network" /\ frame.entry \in {"request", "__call__"})
          => /\ ~Has(KeyContent(api_call[1]), "model_type")
             /\ ~Has(api_call[1].payload, "model_type")
             /\ \A i \in DOMAIN frame.kwargs :
                    frame.kwargs[i][1] # "model_type"
                       => /\ frame.kwargs[i] \in
                                {KeyContent(api_call[1])[j] :
                                    j \in DOMAIN KeyContent(api_call[1])}
                          /\ frame.kwargs[i] \in
                                {api_call[1].payload[j] :
                                    j \in DOMAIN api_call[1].payload}
    /\ \A key \in DOMAIN lru :
           "model_type" \notin OptionsIn({key[3][i] : i \in DOMAIN key[3]})
    /\ \A key \in DOMAIN memory : "model_type" \notin OptionsIn(key[2])
    /\ \A c \in DOMAIN history : \A i \in DOMAIN history[c] :
           /\ ~Has(history[c][i].raw_kwargs, "model_type")
           /\ ~Has(KeyContent(history[c][i]), "model_type")

C18_Witness ==
    /\ frame.pc = "network" /\ frame.entry = "__call__"
    /\ frame.tries = 2 /\ frame.errors = <<"RateLimitError">>
    /\ frame.kwargs = << <<"stop", "x">>, <<"model_type", "chat">> >>
    /\ Len(calls) = 1 /\ Returned(calls[1]) /\ Has(calls[1].kwargs, "model_type")
    /\ Len(history[frame.client]) = 1

\* C19: a step in which a create call raises changes neither tier; the
\* attempt after a wait calls the API again; and a call answered without a
\* create call returns the response of the first earlier call with its key
\* that returned.
C19_FailuresNotCached ==
    /\ [][/\ Len(frame'.errors) > Len(frame.errors) /\ frame.pc = "network"
               => lru' = lru /\ memory' = memory
          /\ frame.pc = "backoff"
               => /\ frame'.pc = "network"
                  /\ frame'.net = frame.net + 1
                  /\ api_call'[1].kwargs = api_call[1].kwargs]_vars
    /\ [](\A k \in DOMAIN calls :
             (Returned(calls[k]) /\ calls[k].net = 0)
                => \E j \in 1..(k - 1) :
                      /\ Returned(calls[j])
                      /\ DurableKeyOf(calls[j]) = DurableKeyOf(calls[k])
                      /\ calls[j].net > 0
                      /\ calls[j].response = calls[k].response)

C19_Witness ==
    /\ cache_turn_on
    /\ Len(calls) = 2
    /\ calls[1].outcome = "APIError" /\ calls[1].net = 1
    /\ calls[2].cache_kwargs = calls[1].cache_kwargs
    /\ calls[2].errors = <<"RateLimitError">> /\ calls[2].net = 2
    /\ Returned(calls[2])
    /\ SessionKeyOf(calls[2]) \in DOMAIN lru
    /\ returned_value(lru[SessionKeyOf(calls[2])]) = calls[2].response[1]

=============================================================================
